---- MODULE Spec2Model ----
(***************************************************************************)
(* A model of hummingbot's logger (hummingbot/logger/logger.py) and of the *)
(* Injective v2 connector configuration (injective_v2_utils.py).           *)
(*                                                                         *)
(* Three specifications share the variables:                               *)
(*   Spec        the logger: construction, notify(), network(), emit()     *)
(*   CallerSpec  findCaller() applied to arbitrary call stacks             *)
(*   ConfigSpec  InjectiveConfigMap: validate_network, create_data_source  *)
(***************************************************************************)
EXTENDS Integers, Sequences, FiniteSets, TLC

VARIABLES
    environ,      \* os.environ['HBOT_MQTT_LOGGING'], or Unset
    argv,         \* sys.argv
    os_name,      \* the platform os.path.normcase runs on: "posix" or "nt"
    logger,       \* the HummingbotLogger instance, or NoLogger before __init__
    main_app,     \* HummingbotApplication.main_application(): None or the app
    init_flag,    \* history: the environment flag HummingbotLogger.__init__ read
    last,         \* the last logger call: its inputs, what it did, how it ended
    resolved,     \* the last direct findCaller() call: its stack and its result
    config,       \* the InjectiveConfigMap instance: its network and account_type
    validated     \* the last configuration call: its input and how it ended

vars == <<environ, argv, os_name, logger, main_app, init_flag, last, resolved, config, validated>>

(***************************************************************************)
(* Bounds of the model.                                                    *)
(***************************************************************************)
\* frames below network() / notify() on the call stack of a logger call
MaxCallers == 2
\* frames below findCaller() on the call stack of a direct findCaller() call
MaxDepth == 4
\* arguments in sys.argv after the program name
MaxArgs == 1

None == "None"
Unset == "(unset)"
NoLogger == [constructed |-> FALSE, name |-> None, level |-> 0, handlers |-> <<>>]

(***************************************************************************)
(* Strings.  Python's `a in b` on strings, str.lower and str.replace.      *)
(***************************************************************************)
\* tools in arg: `sub` occurs in `s` as a substring
Contains(sub, s) ==
    \E i \in 1..(Len(s) - Len(sub) + 1) : SubSeq(s, i, i + Len(sub) - 1) = sub

UpperCase == <<"A", "B", "C", "D", "E", "F", "G", "H", "I", "J", "K", "L", "M",
               "N", "O", "P", "Q", "R", "S", "T", "U", "V", "W", "X", "Y", "Z">>
LowerCase == <<"a", "b", "c", "d", "e", "f", "g", "h", "i", "j", "k", "l", "m",
               "n", "o", "p", "q", "r", "s", "t", "u", "v", "w", "x", "y", "z">>

\* ntpath.normcase on one character: lower case, and "/" becomes "\"
NtChar(c) ==
    IF c = "/" THEN "\\"
    ELSE IF \E k \in 1..26 : UpperCase[k] = c
         THEN LowerCase[CHOOSE k \in 1..26 : UpperCase[k] = c]
         ELSE c

RECURSIVE NtNormcase(_)
NtNormcase(s) ==
    IF Len(s) = 0 THEN s
    ELSE NtChar(SubSeq(s, 1, 1)) \o NtNormcase(SubSeq(s, 2, Len(s)))

\* os.path.normcase: the identity on posix, NtNormcase on Windows
normcase(s) == IF os_name = "nt" THEN NtNormcase(s) ELSE s

(***************************************************************************)
(* Severity levels.                                                        *)
(***************************************************************************)
INFO == 20
WARNING == 30
\* the domain level network() logs at
NETWORK == WARNING - 1
\* the domain rank the specification places strictly between INFO and WARNING
NOTIFY == 25

\* the thresholds setLevel is called with: everything from INFO up, from
\* WARNING up (the root logger's default), and only what lies above WARNING
Thresholds == {INFO, WARNING, WARNING + 10}

getLevelName(level) ==
    CASE level = INFO -> "INFO"
      [] level = NOTIFY -> "NOTIFY"
      [] level = NETWORK -> "NETWORK"
      [] level = WARNING -> "WARNING"
      [] OTHER -> "Level"

(***************************************************************************)
(* Test-mode detection.                                                    *)
(***************************************************************************)
TESTING_TOOLS == <<"nose", "unittest", "pytest">>

\* is_testing_mode looking at the program name only, sys.argv[0]
is_testing_mode_program_only(args) ==
    \E t \in 1..Len(TESTING_TOOLS) : Contains(TESTING_TOOLS[t], args[1])

\* any(tools in arg for tools in TESTING_TOOLS for arg in sys.argv)
is_testing_mode(args) ==
    \E t \in 1..Len(TESTING_TOOLS) : \E i \in 1..Len(args) :
        Contains(TESTING_TOOLS[t], args[i])

(***************************************************************************)
(* The call stack and findCaller.                                          *)
(***************************************************************************)
\* the logger module's own file, HummingbotLogger.network.__code__.co_filename
LoggerFile == "hummingbot/logger/logger.py"
\* the standard logging module's file
LoggingFile == "logging/__init__.py"

srcfile == normcase(LoggerFile)

Frame(file, line, func) == [co_filename |-> file, f_lineno |-> line, co_name |-> func]

\* the application frame d calls below the logger call: AppFrame(1) calls
\* network() or notify() itself, AppFrame(2) calls AppFrame(1), and so on
AppFrame(d) ==
    IF d = 1 THEN Frame("connector/WS.py", 42, "listen")
    ELSE Frame("strategy/maker.py", 10 * d, "tick")

\* the application's part of a call stack k frames deep, outermost first
AppStack(k) == [i \in 1..k |-> AppFrame(k + 1 - i)]
\* frames of the logger module itself
FrameNetwork == Frame(LoggerFile, 107, "network")
FrameNotify == Frame(LoggerFile, 96, "notify")
FrameFindCaller == Frame(LoggerFile, 125, "findCaller")
FrameCurrentframe == Frame(LoggerFile, 25, "currentframe")
\* frames of the standard logging module
FrameLog == Frame(LoggingFile, 1500, "log")
FrameWarning == Frame(LoggingFile, 1450, "warning")
FrameLogLog == Frame(LoggingFile, 1580, "_log")

Sentinel == <<"(unknown file)", 0, "(unknown function)", None>>

\* A stack is a sequence of frames, outermost first.  A frame object is an
\* index into it; 0 is None (f_back of the outermost frame).
f_back(f) == IF f = 0 THEN 0 ELSE f - 1

\* sys._getframe(3) called inside currentframe(): the frame three calls below
\* the top of the stack, or ValueError when the stack is not that deep
currentframe(stack) ==
    IF Len(stack) >= 4 THEN [exc |-> "none", f |-> Len(stack) - 3]
                       ELSE [exc |-> "ValueError", f |-> 0]

\* while f and stacklevel > 1: f = f.f_back; stacklevel -= 1
RECURSIVE SkipLevels(_, _)
SkipLevels(f, stacklevel) ==
    IF f # 0 /\ stacklevel > 1 THEN SkipLevels(f_back(f), stacklevel - 1) ELSE f

\* while hasattr(f, "f_code"): skip the frames of srcfile, return the first other
RECURSIVE Walk(_, _)
Walk(stack, f) ==
    IF f = 0 THEN Sentinel
    ELSE IF normcase(stack[f].co_filename) = srcfile
         THEN Walk(stack, f_back(f))
         ELSE <<stack[f].co_filename, stack[f].f_lineno, stack[f].co_name, None>>

\* findCaller(stack_info=False, stacklevel): `callers` are the frames below
\* findCaller's own, outermost first
findCaller(callers, stacklevel) ==
    LET stack == callers \o <<FrameFindCaller, FrameCurrentframe>>
        cf == currentframe(stack)
        orig_f == f_back(cf.f)
        skipped == SkipLevels(orig_f, stacklevel)
        f == IF skipped = 0 THEN orig_f ELSE skipped
    IN  IF cf.exc # "none" THEN [exc |-> cf.exc, rv |-> Sentinel]
        ELSE [exc |-> "none", rv |-> Walk(stack, f)]

(***************************************************************************)
(* Records, the remote message and the remote sink.                        *)
(***************************************************************************)
\* str(msg) % args for the %s conversions; a message logged without
\* arguments is left as it is (LogRecord.getMessage)
RECURSIVE PercentFormat(_, _)
PercentFormat(s, args) ==
    IF Len(s) = 0 THEN s
    ELSE IF Len(s) >= 2 /\ SubSeq(s, 1, 2) = "%s" /\ args # <<>>
         THEN Head(args) \o PercentFormat(SubSeq(s, 3, Len(s)), Tail(args))
         ELSE SubSeq(s, 1, 1) \o PercentFormat(SubSeq(s, 2, Len(s)), args)

\* Handler.format(record) with the default formatter, "%(message)s"
format(record) == PercentFormat(record.msg, record.args)

\* the LogRecord Logger.makeRecord builds
LogRecord(name, level, caller, msg, args) ==
    [name |-> name, levelno |-> level, levelname |-> getLevelName(level),
     pathname |-> caller[1], lineno |-> caller[2], funcName |-> caller[3],
     msg |-> msg, args |-> args]

\* the LogMessage dataclass
LogMessage(timestamp, msg, level_no, level_name, logger_name) ==
    [timestamp |-> timestamp, msg |-> msg, level_no |-> level_no,
     level_name |-> level_name, logger_name |-> logger_name]

\* What a call did is a sequence of events, in the order they happened.
Event(ev, level, data, ok) == [ev |-> ev, level |-> level, data |-> data, ok |-> ok]

\* A step of a call: the events it added and the exception it ended with.
Step(events, exc) == [events |-> events, exc |-> exc]

\* emit publishing the record's message as logged, its arguments not applied
emit_unformatted(record, raises, now) ==
    LET msg == LogMessage(now, record.msg, record.levelno, record.levelname, record.name)
    IN  Step(<<Event("publish", record.levelno, msg, ~raises)>>,
             IF raises THEN "TransportError" ELSE "none")

\* MQTTHandler.emit(record): `raises` tells whether the transport's
\* publish raises, `now` is time.time()
emit(record, raises, now) ==
    LET msg_str == format(record)
        msg == LogMessage(now, msg_str, record.levelno, record.levelname, record.name)
    IN  Step(<<Event("publish", record.levelno, msg, ~raises)>>,
             IF raises THEN "TransportError" ELSE "none")

\* Logger.callHandlers(record): the handlers of the logger itself, then the
\* standard sink it inherits from its parent; an exception ends the loop
callHandlers(lg, record, raises, now) ==
    LET sent == emit(record, raises, now)
        own == IF lg.handlers = <<>> THEN Step(<<>>, "none")
               ELSE Step(<<Event("emit", record.levelno, record, TRUE)>> \o sent.events,
                         sent.exc)
    IN  IF own.exc # "none" THEN own
        ELSE Step(own.events \o <<Event("handle", record.levelno, record, TRUE)>>, "none")

\* Logger.log(level, msg, *args) and Logger.warning(msg): the call is
\* filtered by isEnabledFor(level); `callers` are the frames below _log
log(lg, level, msg, args, callers, raises, now) ==
    LET called == <<Event("log", level, msg, TRUE)>>
        caller == findCaller(callers, 1)
        record == LogRecord(lg.name, level, caller.rv, msg, args)
        handled == callHandlers(lg, record, raises, now)
    IN  IF level >= lg.level
        THEN Step(called \o handled.events, handled.exc)
        ELSE Step(called, "none")

(***************************************************************************)
(* HummingbotLogger.                                                       *)
(***************************************************************************)
\* the tokens of HBOT_MQTT_LOGGING that enable the remote sink
MQTT_LOGGING_TOKENS == {"1", "True", "true", "Yes", "Nai", "Si", "Da", "sudo"}

\* __init__ attaching the sink whenever the flag is set at all
HummingbotLogger_any_value(name, flag) ==
    [constructed |-> TRUE, name |-> name, level |-> WARNING,
     handlers |-> IF flag # Unset THEN <<"MQTTHandler">> ELSE <<>>]

\* HummingbotLogger.__init__(name) under the environment flag `flag`
HummingbotLogger(name, flag) ==
    [constructed |-> TRUE, name |-> name, level |-> WARNING,
     handlers |-> IF flag \in MQTT_LOGGING_TOKENS THEN <<"MQTTHandler">> ELSE <<>>]

\* f"({pd.Timestamp.fromtimestamp(int(time.time()))}) {msg}"
NotifyText(now, msg) == "(" \o ToString(now) \o ") " \o msg

\* notify() logging at the NOTIFY rank
NotifyLevel_notify_rank == NOTIFY

\* the severity notify() logs at
NotifyLevel == INFO

\* notify(msg)
notify(lg, args, app, msg, callers, fails, now) ==
    LET s1 == log(lg, NotifyLevel, msg, <<>>, callers \o <<FrameNotify, FrameLog, FrameLogLog>>,
                  1 \in fails, now)
        lookup == <<Event("main_application", 0, app, TRUE)>>
    IN  IF s1.exc # "none" THEN s1
        ELSE IF is_testing_mode(args) THEN s1
        ELSE IF app = None
             THEN Step(s1.events \o lookup, "AttributeError")
             ELSE Step(s1.events \o lookup
                         \o <<Event("app.notify", 0, NotifyText(now, msg), TRUE)>>, "none")

\* ApplicationWarning(timestamp, logger_name, caller_info, warning_msg)
ApplicationWarning(timestamp, logger_name, caller_info, warning_msg) ==
    [timestamp |-> timestamp, logger_name |-> logger_name,
     caller_info |-> caller_info, warning_msg |-> warning_msg]

\* network(log_msg, app_warning_msg, *args)
network(lg, args, app, log_msg, app_warning_msg, log_args, callers, fails, now) ==
    LET s1 == log(lg, NETWORK, log_msg, log_args,
                  callers \o <<FrameNetwork, FrameLog, FrameLogLog>>, 1 \in fails, now)
        caller == findCaller(callers \o <<FrameNetwork>>, 1)
        app_warning == ApplicationWarning(now, lg.name, caller.rv, app_warning_msg)
        built == <<Event("findCaller", 0, caller.rv, TRUE),
                   Event("ApplicationWarning", 0, app_warning, TRUE)>>
        s2 == log(lg, WARNING, app_warning_msg, <<>>,
                  callers \o <<FrameNetwork, FrameWarning, FrameLogLog>>, 2 \in fails, now)
        lookup == <<Event("main_application", 0, app, TRUE)>>
        sofar == s1.events \o built \o s2.events
    IN  IF s1.exc # "none" THEN s1
        ELSE IF ~(app_warning_msg # None /\ ~is_testing_mode(args)) THEN s1
        ELSE IF caller.exc # "none" THEN Step(s1.events, caller.exc)
        ELSE IF s2.exc # "none" THEN Step(sofar, s2.exc)
        ELSE IF app = None THEN Step(sofar \o lookup, "AttributeError")
        ELSE Step(sofar \o lookup
                    \o <<Event("app.add_application_warning", 0, app_warning, TRUE)>>,
                  "none")

(***************************************************************************)
(* The logger's environment and the calls made on it.                      *)
(***************************************************************************)
\* values HBOT_MQTT_LOGGING is given
EnvTokens == {Unset, "1", "Yes", "yes", "0"}

\* command lines: the program, then up to MaxArgs arguments
Programs == {"bin/hummingbot.py", "python -m unittest"}
Arguments == {"--with-nose-pytest"}

RECURSIVE ArgLists(_)
ArgLists(n) ==
    IF n = 0 THEN {<<>>}
    ELSE ArgLists(n - 1) \cup
         {Append(l, a) : l \in {x \in ArgLists(n - 1) : Len(x) = n - 1}, a \in Arguments}

Argvs == {<<p>> \o l : p \in Programs, l \in ArgLists(MaxArgs)}

LoggerNames == {"x.y"}
\* a message and the arguments logged with it, one for each %s conversion
Messages == {<<"retry %s", <<"ws">>>>}
WarningMessages == {None, "check network"}
\* readings of time.time()
Times == {1700000000}

Idle == [op |-> "idle"]

\* which of a call's publishes raise: none when no sink is attached
Failures(n) == IF logger.handlers = <<>> THEN {{}} ELSE SUBSET (1..n)

Init ==
    /\ environ = Unset
    /\ argv = <<"bin/hummingbot.py">>
    /\ os_name = "posix"
    /\ logger = NoLogger
    /\ main_app = None
    /\ init_flag = Unset
    /\ last = Idle
    /\ resolved = Idle
    /\ config = Idle
    /\ validated = Idle

\* os.environ['HBOT_MQTT_LOGGING'] = token, or its removal
SetEnv ==
    \E token \in EnvTokens :
        /\ token # environ
        /\ environ' = token
        /\ last' = Idle
        /\ UNCHANGED <<argv, os_name, logger, main_app, init_flag, resolved, config, validated>>

\* the process is started with another command line
SetArgv ==
    \E a \in Argvs :
        /\ a # argv
        /\ argv' = a
        /\ last' = Idle
        /\ UNCHANGED <<environ, os_name, logger, main_app, init_flag, resolved, config, validated>>

\* HummingbotLogger(name)
NewLogger ==
    \E name \in LoggerNames :
        /\ ~logger.constructed
        /\ logger' = HummingbotLogger(name, environ)
        /\ init_flag' = environ
        /\ last' = Idle
        /\ UNCHANGED <<environ, argv, os_name, main_app, resolved, config, validated>>

\* logger.setLevel(level)
SetLevel ==
    \E level \in Thresholds :
        /\ logger.constructed
        /\ level # logger.level
        /\ logger' = [logger EXCEPT !.level = level]
        /\ last' = Idle
        /\ UNCHANGED <<environ, argv, os_name, main_app, init_flag, resolved, config, validated>>

\* the host application starts: main_application() returns it from now on
StartApp ==
    /\ main_app = None
    /\ main_app' = "HummingbotApplication"
    /\ last' = Idle
    /\ UNCHANGED <<environ, argv, os_name, logger, init_flag, resolved, config, validated>>

\* logger.notify(msg), called k application frames deep
Notify ==
    /\ logger.constructed
    /\ \E m \in Messages, k \in 0..MaxCallers, now \in Times :
      \E fails \in Failures(1) :
        /\ LET done == notify(logger, argv, main_app, m[1], AppStack(k), fails, now)
           IN  last' = [op |-> "notify", msg |-> m[1], log_args |-> <<>>,
                        app_warning_msg |-> None, depth |-> k, fails |-> fails,
                        now |-> now, trace |-> done.events, exc |-> done.exc]
        /\ UNCHANGED <<environ, argv, os_name, logger, main_app, init_flag, resolved, config, validated>>

\* logger.network(log_msg, app_warning_msg, *args), called k application frames deep
Network ==
    /\ logger.constructed
    /\ \E m \in Messages, w \in WarningMessages, k \in 0..MaxCallers, now \in Times :
      \E fails \in Failures(2) :
        /\ LET done == network(logger, argv, main_app, m[1], w, m[2], AppStack(k), fails, now)
           IN  last' = [op |-> "network", msg |-> m[1], log_args |-> m[2],
                        app_warning_msg |-> w, depth |-> k, fails |-> fails,
                        now |-> now, trace |-> done.events, exc |-> done.exc]
        /\ UNCHANGED <<environ, argv, os_name, logger, main_app, init_flag, resolved, config, validated>>

Next == SetEnv \/ SetArgv \/ NewLogger \/ SetLevel \/ StartApp \/ Notify \/ Network

Spec == Init /\ [][Next]_vars

(***************************************************************************)
(* findCaller applied to arbitrary call stacks.                            *)
(***************************************************************************)
\* the frames a stack below findCaller is made of: application code, the
\* logger module itself, and the standard logging module
CallerFrames == {AppFrame(1), AppFrame(2), FrameNetwork, FrameLogLog}

RECURSIVE Stacks(_)
Stacks(n) ==
    IF n = 0 THEN {<<>>}
    ELSE Stacks(n - 1) \cup
         {Append(st, fr) : st \in {x \in Stacks(n - 1) : Len(x) = n - 1}, fr \in CallerFrames}

CallerInit ==
    /\ environ = Unset
    /\ argv = <<"bin/hummingbot.py">>
    /\ os_name \in {"posix", "nt"}
    /\ logger = NoLogger
    /\ main_app = None
    /\ init_flag = Unset
    /\ last = Idle
    /\ \E callers \in Stacks(MaxDepth), stacklevel \in 1..2 :
           resolved = [op |-> "call", callers |-> callers, stacklevel |-> stacklevel,
                       exc |-> "none", rv |-> Sentinel]
    /\ config = Idle
    /\ validated = Idle

\* logger.findCaller(stacklevel=n) with `callers` below it on the stack
ResolveCaller ==
        /\ resolved.op = "call"
        /\ LET found == findCaller(resolved.callers, resolved.stacklevel)
           IN  resolved' = [resolved EXCEPT !.op = "findCaller", !.exc = found.exc,
                                            !.rv = found.rv]
        /\ UNCHANGED <<environ, argv, os_name, logger, main_app, init_flag, last, config, validated>>

CallerNext == ResolveCaller

CallerSpec == CallerInit /\ [][CallerNext]_vars

(***************************************************************************)
(* The Injective v2 connector configuration.                               *)
(***************************************************************************)
MAINNET_NODES == <<"lb", "sentry0", "sentry1", "sentry3">>

\* Config.title of the model classes
Title(cls) ==
    CASE cls = "InjectiveMainnetNetworkMode" -> "mainnet_network"
      [] cls = "InjectiveTestnetNetworkMode" -> "testnet_network"
      [] cls = "InjectiveCustomNetworkMode" -> "custom_network"
      [] cls = "InjectiveDelegatedAccountMode" -> "delegate_account"
      [] cls = "InjectiveVaultAccountMode" -> "vault_account"
      [] OTHER -> cls

\* the classes a class derives from, itself included
Bases(cls) ==
    CASE cls \in {"InjectiveMainnetNetworkMode", "InjectiveTestnetNetworkMode",
                  "InjectiveCustomNetworkMode"} -> {cls, "InjectiveNetworkMode"}
      [] cls \in {"InjectiveDelegatedAccountMode", "InjectiveVaultAccountMode"} ->
             {cls, "InjectiveAccountMode"}
      [] OTHER -> {cls}

\* the abstract methods a class leaves unimplemented
AbstractMethods(cls) ==
    CASE cls = "InjectiveNetworkMode" -> {"network", "use_secure_connection"}
      [] cls = "InjectiveAccountMode" -> {"create_data_source"}
      [] OTHER -> {}

NETWORK_MODES ==
    (Title("InjectiveMainnetNetworkMode") :> "InjectiveNetworkMode")
    @@ (Title("InjectiveTestnetNetworkMode") :> "InjectiveTestnetNetworkMode")
    @@ (Title("InjectiveCustomNetworkMode") :> "InjectiveCustomNetworkMode")

ACCOUNT_MODES ==
    (Title("InjectiveDelegatedAccountMode") :> "InjectiveDelegatedAccountMode")
    @@ (Title("InjectiveVaultAccountMode") :> "InjectiveVaultAccountMode")

\* the classes a registry maps to: tuple(MODES.values())
Values(modes) == {modes[k] : k \in DOMAIN modes}

\* Values handed to the validators: a string, a dict, or a model instance.
\* `populated` tells whether the instance's required fields were given;
\* `node` and `secure` are the fields the network modes read.
Str(x) == [kind |-> "str", value |-> x]
Dict == [kind |-> "dict"]
Model(cls, populated, node, secure) ==
    [kind |-> "model", cls |-> cls, populated |-> populated, node |-> node, secure |-> secure]

\* cls.construct(): no validation, the defaults of the fields that have one;
\* object.__new__ refuses a class that has abstract methods
construct(cls) ==
    IF AbstractMethods(cls) # {}
    THEN [exc |-> "TypeError", value |-> Dict]
    ELSE [exc |-> "none",
          value |-> Model(cls, cls = "InjectiveTestnetNetworkMode",
                          IF cls = "InjectiveMainnetNetworkMode" THEN "lb" ELSE None, FALSE)]

\* isinstance(v, tuple(modes.values()) + (Dict,))
IsInstance(v, modes) ==
    \/ v.kind = "dict"
    \/ v.kind = "model" /\ Bases(v.cls) \cap Values(modes) # {}

\* the body the two validators share: validate_network with NETWORK_MODES,
\* validate_account_type with ACCOUNT_MODES
validate_mode(v, modes) ==
    IF IsInstance(v, modes) THEN [exc |-> "none", value |-> v]
    ELSE IF ~(v.kind = "str" /\ v.value \in DOMAIN modes)
         THEN [exc |-> "ValueError", value |-> v]
         ELSE construct(modes[v.value])

validate_network(v) == validate_mode(v, NETWORK_MODES)

validate_account_type(v) == validate_mode(v, ACCOUNT_MODES)

\* InjectiveMainnetNetworkMode.validate_node
validate_node(v) ==
    IF \E i \in 1..Len(MAINNET_NODES) : MAINNET_NODES[i] = v
    THEN [exc |-> "none", value |-> v]
    ELSE [exc |-> "ValueError", value |-> v]

\* mode.network(): the pyinjective Network the mode selects
network_of(mode) ==
    CASE mode.cls = "InjectiveMainnetNetworkMode" ->
             [exc |-> "none", value |-> <<"mainnet", mode.node>>]
      [] mode.cls = "InjectiveTestnetNetworkMode" ->
             [exc |-> "none", value |-> <<"testnet", None>>]
      [] mode.cls = "InjectiveCustomNetworkMode" ->
             IF mode.populated THEN [exc |-> "none", value |-> <<"custom", None>>]
             ELSE [exc |-> "AttributeError", value |-> <<None, None>>]
      [] OTHER -> [exc |-> "AttributeError", value |-> <<None, None>>]

\* mode.use_secure_connection()
use_secure_connection(mode) ==
    CASE mode.cls = "InjectiveMainnetNetworkMode" ->
             [exc |-> "none", value |-> (mode.node = "lb")]
      [] mode.cls = "InjectiveTestnetNetworkMode" -> [exc |-> "none", value |-> TRUE]
      [] mode.cls = "InjectiveCustomNetworkMode" ->
             IF mode.populated THEN [exc |-> "none", value |-> mode.secure]
             ELSE [exc |-> "AttributeError", value |-> FALSE]
      [] OTHER -> [exc |-> "AttributeError", value |-> FALSE]

\* InjectiveConfigMap.create_data_source
create_data_source(cfg) ==
    LET net == network_of(cfg.network)
        secure == use_secure_connection(cfg.network)
        source == IF cfg.account_type.cls = "InjectiveDelegatedAccountMode"
                  THEN "InjectiveGranteeDataSource" ELSE "InjectiveVaultsDataSource"
    IN  IF net.exc # "none" THEN [exc |-> net.exc, value |-> Dict]
        ELSE IF secure.exc # "none" THEN [exc |-> secure.exc, value |-> Dict]
        ELSE IF ~cfg.account_type.populated THEN [exc |-> "AttributeError", value |-> Dict]
        ELSE [exc |-> "none",
              value |-> [kind |-> source, network |-> net.value,
                         use_secure_connection |-> secure.value]]

\* the defaults of InjectiveConfigMap's network and account_type fields
DefaultConfig ==
    [network |-> Model("InjectiveMainnetNetworkMode", TRUE, "lb", FALSE),
     account_type |-> Model("InjectiveDelegatedAccountMode", TRUE, None, FALSE)]

NetworkInputs ==
    {Str(x) : x \in {"mainnet_network", "testnet_network", "custom_network",
                     "InjectiveMainnetNetworkMode", "lb"}}
    \cup {Dict}
    \cup {Model("InjectiveMainnetNetworkMode", TRUE, MAINNET_NODES[i], FALSE) :
            i \in 1..Len(MAINNET_NODES)}
    \cup {Model("InjectiveTestnetNetworkMode", TRUE, None, FALSE)}
    \cup {Model("InjectiveCustomNetworkMode", TRUE, None, b) : b \in BOOLEAN}
    \cup {Model("InjectiveDelegatedAccountMode", TRUE, None, FALSE)}

AccountInputs ==
    {Str(x) : x \in {"delegate_account", "vault_account", "mainnet_network"}}
    \cup {Dict}
    \cup {Model(c, TRUE, None, FALSE) :
            c \in {"InjectiveDelegatedAccountMode", "InjectiveVaultAccountMode"}}

ConfigInit ==
    /\ environ = Unset
    /\ argv = <<"bin/hummingbot.py">>
    /\ os_name = "posix"
    /\ logger = NoLogger
    /\ main_app = None
    /\ init_flag = Unset
    /\ last = Idle
    /\ resolved = Idle
    /\ config = DefaultConfig
    /\ validated = Idle

\* what a validator's result leaves in the field: a model it returned
Assigned(old, result) ==
    IF result.exc = "none" /\ result.value.kind = "model" THEN result.value ELSE old

\* config.network = v
ValidateNetwork ==
    \E v \in NetworkInputs :
        /\ LET result == validate_network(v)
           IN  /\ validated' = [op |-> "validate_network", input |-> v,
                                exc |-> result.exc, value |-> result.value]
               /\ config' = [config EXCEPT !.network = Assigned(@, result)]
        /\ UNCHANGED <<environ, argv, os_name, logger, main_app, init_flag, last, resolved>>

\* config.account_type = v
ValidateAccountType ==
    \E v \in AccountInputs :
        /\ LET result == validate_account_type(v)
           IN  /\ validated' = [op |-> "validate_account_type", input |-> v,
                                exc |-> result.exc, value |-> result.value]
               /\ config' = [config EXCEPT !.account_type = Assigned(@, result)]
        /\ UNCHANGED <<environ, argv, os_name, logger, main_app, init_flag, last, resolved>>

\* config.network.node = v, on a mainnet mode
ValidateNode ==
    \E v \in {"lb", "sentry0", "sentry1", "sentry2", "sentry3"} :
        /\ config.network.cls = "InjectiveMainnetNetworkMode"
        /\ LET result == validate_node(v)
           IN  /\ validated' = [op |-> "validate_node", input |-> Str(v),
                                exc |-> result.exc, value |-> Str(result.value)]
               /\ config' = IF result.exc = "none"
                            THEN [config EXCEPT !.network.node = v]
                            ELSE config
        /\ UNCHANGED <<environ, argv, os_name, logger, main_app, init_flag, last, resolved>>

\* config.create_data_source()
CreateDataSource ==
    /\ LET result == create_data_source(config)
       IN  validated' = [op |-> "create_data_source", input |-> Dict,
                         exc |-> result.exc, value |-> result.value]
    /\ UNCHANGED <<environ, argv, os_name, logger, main_app, init_flag, last, resolved, config>>

ConfigNext == ValidateNetwork \/ ValidateAccountType \/ ValidateNode \/ CreateDataSource

ConfigSpec == ConfigInit /\ [][ConfigNext]_vars

(***************************************************************************)
(* The claims.                                                             *)
(***************************************************************************)
\* the last step was a call of notify() or network()
Called == last.op \in {"notify", "network"}

\* a test-runner marker occurs in some argument of the command line
MarkerPresent ==
    \E i \in 1..Len(argv) : \E tool \in {"nose", "unittest", "pytest"} :
        Contains(tool, argv[i])

\* the positions of the call's events named in `evs`
Positions(evs) == {i \in 1..Len(last.trace) : last.trace[i].ev \in evs}

\* the call's log calls made at `level`
LogsAt(level) == {i \in Positions({"log"}) : last.trace[i].level = level}

\* the call's publishes that raised
RaisedPublishes == {i \in Positions({"publish"}) : ~last.trace[i].ok}

\* the host application was looked up or used
AppEvents == {"main_application", "app.notify", "app.add_application_warning"}

\* C1: a publish that raises inside emit never ends the logging call with
\* that exception: notify() and network() return normally all the same.
C1_PublishFailureNeverPropagates ==
    Called /\ RaisedPublishes # {} => last.exc = "none"

\* C2: with a test-runner marker in the command line at the time of the
\* call, notify() and network() neither look up nor use the host application,
\* whatever the warning message; so a call that touches it ran without marker.
C2_TestModeNeverTouchesApplication ==
    Called /\ MarkerPresent => Positions(AppEvents) = {}

C2_Witness ==
    /\ last.op = "network"
    /\ last.app_warning_msg # None
    /\ MarkerPresent
    /\ ~Contains("nose", argv[1]) /\ ~Contains("unittest", argv[1])
    /\ main_app = None
    /\ last.exc = "none"

C4_WarningNamesDirectCaller ==
    last.op = "network" /\ last.depth >= 1 =>
        \A i \in Positions({"ApplicationWarning"}) :
            last.trace[i].data.caller_info =
                <<AppFrame(1).co_filename, AppFrame(1).f_lineno, AppFrame(1).co_name, None>>

\* the events of an escalation, in the order the claim C5 gives them
EscalationSteps == <<"log", "findCaller", "ApplicationWarning", "log",
                     "app.add_application_warning">>

\* the call's events without those of the sinks and of the lookup
StepsTaken ==
    LET at == Positions({"log", "findCaller", "ApplicationWarning",
                          "app.add_application_warning"})
        nth[n \in 0..Len(last.trace)] ==
            IF n = 0 THEN <<>>
            ELSE IF n \in at THEN Append(nth[n - 1], last.trace[n].ev) ELSE nth[n - 1]
    IN  nth[Len(last.trace)]

\* C5: called from application code with the host application running,
\* network() logs at NETWORK first;
\* it escalates exactly when the warning message is given and no test-runner
\* marker is present, and then takes the escalation steps once each, in order;
\* otherwise it logs nothing at WARNING and builds no warning record.
C5_NetworkEscalatesInOrder ==
    last.op = "network" /\ last.depth >= 1 /\ main_app # None =>
        /\ last.trace[1].ev = "log" /\ last.trace[1].level = NETWORK
        /\ IF last.app_warning_msg # None /\ ~MarkerPresent
           THEN /\ StepsTaken = EscalationSteps
                /\ LogsAt(WARNING) # {}
           ELSE /\ StepsTaken = <<"log">>
                /\ LogsAt(WARNING) = {}

\* C6: the sink is attached exactly when the flag __init__ read was one of
\* the allowed tokens; unset, or a token such as "TRUE", "yes", "on" or "0",
\* leaves it detached; and no later step changes the attachment.
C6_SinkAttachedIffFlagAllowed ==
    /\ [](logger.constructed =>
            /\ (logger.handlers # <<>>) <=>
                   (init_flag \in {"1", "True", "true", "Yes", "Nai", "Si", "Da", "sudo"})
            /\ init_flag \in {Unset, "TRUE", "yes", "on", "0"} => logger.handlers = <<>>)
    /\ [][logger.constructed => logger'.handlers = logger.handlers]_vars

C6_Witness ==
    /\ logger.constructed
    /\ init_flag = "Yes"
    /\ logger.handlers # <<>>
    /\ environ = "0"
    /\ last.op = "network"

\* C7: findCaller never raises, whatever the stack, and returns the sentinel
\* or the location of a frame outside the logger module's own file.
C7_FindCallerNeverRaises ==
    resolved.op = "findCaller" =>
        /\ resolved.exc = "none"
        /\ resolved.rv = Sentinel \/ normcase(resolved.rv[1]) # normcase(LoggerFile)

\* C8: every record handed to emit is published once, as a message whose
\* level_no, level_name, logger_name and msg are the record's level number,
\* level name, logger name and formatted message, beside the timestamp.
C8_RemoteMessageProjectsRecord ==
    Called =>
        /\ Cardinality(Positions({"publish"})) = Cardinality(Positions({"emit"}))
        /\ \A i \in Positions({"emit"}) :
               LET record == last.trace[i].data
               IN  /\ i < Len(last.trace)
                   /\ last.trace[i + 1].ev = "publish"
                   /\ last.trace[i + 1].data =
                          [timestamp |-> last.now, msg |-> format(record),
                           level_no |-> record.levelno, level_name |-> record.levelname,
                           logger_name |-> record.name]
                   /\ record.msg = "retry %s" /\ record.args = <<"ws">> =>
                          last.trace[i + 1].data.msg = "retry ws"

C8_Witness ==
    /\ last.op = "network"
    /\ last.exc = "none"
    /\ \E i \in Positions({"publish"}) :
           /\ last.trace[i].data.msg = "retry ws"
           /\ last.trace[i].data.level_name = "NETWORK"
           /\ last.trace[i].data.logger_name = "x.y"

\* C9: called from application code with no test-runner marker and no host
\* application yet, network() with a warning message and notify() fail at
\* the hand-off to the application and nowhere else, after their log calls
\* were made.
C9_FailsOnlyAtHandOff ==
    Called /\ last.depth >= 1 /\ ~MarkerPresent /\ main_app = None =>
        /\ last.op = "network" /\ last.app_warning_msg # None =>
               /\ last.exc = "AttributeError"
               /\ LogsAt(NETWORK) # {} /\ LogsAt(WARNING) # {}
        /\ last.op = "notify" =>
               /\ last.exc = "AttributeError"
               /\ Positions({"log"}) # {}

\* C10: each key of NETWORK_MODES maps to the concrete class whose title it
\* is, so validate_network on the key returns an instance of that class, on
\* which network() and use_secure_connection() are implemented; any other
\* string is rejected.
C10_RegistryMatchesTitles ==
    validated.op = "validate_network" /\ validated.input.kind = "str" =>
        IF validated.input.value \in DOMAIN NETWORK_MODES
        THEN /\ validated.exc = "none"
             /\ validated.value.kind = "model"
             /\ Title(validated.value.cls) = validated.input.value
             /\ AbstractMethods(validated.value.cls) = {}
        ELSE validated.exc = "ValueError"

====
